---- MODULE Spec2Model ----
(***************************************************************************)
(* IP-to-country attribution of apache-access-summarizer.py:               *)
(*   get_iso_country_codes   fetches the country list (3 attempts),        *)
(*   CountryCidrMapper       fetches the zone archive (3 attempts), parses *)
(*                           every CIDR line and sorts the ranges,         *)
(*   get_country_from_ip     bisects the sorted ranges and checks the two  *)
(*                           entries before the insertion point.           *)
(* Addresses are AddrBits wide instead of 32: TLC's integers are 32-bit    *)
(* signed, and every address and prefix length of the narrower space is    *)
(* enumerated.                                                             *)
(***************************************************************************)
EXTENDS Integers, Sequences, FiniteSets, TLC

\* ------------------------------------------------------------------ bounds
AddrBits == 2          \* width of an IPv4 address in the model
MaxLines == 2          \* lines of the whole archive in the main universe
MaxFails == 4          \* leading failures the network can script per URL

\* --------------------------------------------------------- program constant
MaxAttempts == 3       \* "if attempt >= 3: raise e"

\* ------------------------------------------------------------ bit helpers
ALL_ONES == 2^AddrBits - 1

RECURSIVE BitAnd(_, _, _)
BitAnd(x, y, n) ==
    IF n = 0 THEN 0
    ELSE (x % 2) * (y % 2) + 2 * BitAnd(x \div 2, y \div 2, n - 1)

RECURSIVE BitXor(_, _, _)
BitXor(x, y, n) ==
    IF n = 0 THEN 0
    ELSE ((x + y) % 2) + 2 * BitXor(x \div 2, y \div 2, n - 1)

\* ----------------------------------------------------------------- errors
NoError == [type |-> "none", call |-> 0]
ValueError == [type |-> "ValueError", call |-> 0]
IndexError == [type |-> "IndexError", call |-> 0]
ReadError == [type |-> "ReadError", call |-> 0]
ParameterError == [type |-> "ParameterError", call |-> 0]
\* the exception the k-th get() of a fetch loop raised
FetchError(t, k) == [type |-> t, call |-> k]

\* ------------------------------------------------- text of a zone file line
\* "blank" is a line of whitespace only, "cidr4" is <addr>/<plen> in dotted
\* form, "cidr6" an IPv6 network, "garbage" any other text.
CidrLine(a, p) == [kind |-> "cidr4", addr |-> a, plen |-> p]
BlankLine == [kind |-> "blank", addr |-> 0, plen |-> 0]
EmptyLine == [kind |-> "empty", addr |-> 0, plen |-> 0]
Cidr6Line == [kind |-> "cidr6", addr |-> 0, plen |-> 0]
GarbageLine == [kind |-> "garbage", addr |-> 0, plen |-> 0]

\* str.strip() of one line
StripLine(c) == IF c.kind = "blank" THEN EmptyLine ELSE c

\* IPv4Network(cidr, strict=False): the netmask of the prefix, and the
\* address with its host bits masked off; a ValueError for anything else.
Netmask(p) == BitXor(ALL_ONES, ALL_ONES \div (2^p), AddrBits)

NoNetwork == [network_address |-> -1, prefixlen |-> -1]

IPv4NetworkStrict(cidr) ==
    IF cidr.kind # "cidr4" THEN NoNetwork
    ELSE IF cidr.plen \notin 0..AddrBits THEN NoNetwork
    ELSE IF cidr.addr \notin 0..ALL_ONES THEN NoNetwork
    ELSE IF BitAnd(cidr.addr, Netmask(cidr.plen), AddrBits) # cidr.addr THEN NoNetwork
    ELSE [network_address |-> cidr.addr, prefixlen |-> cidr.plen]

IPv4Network(cidr) ==
    IF cidr.kind # "cidr4" THEN NoNetwork
    ELSE IF cidr.plen \notin 0..AddrBits THEN NoNetwork
    ELSE IF cidr.addr \notin 0..ALL_ONES THEN NoNetwork
    ELSE [network_address |-> BitAnd(cidr.addr, Netmask(cidr.plen), AddrBits),
          prefixlen |-> cidr.plen]

\* ---------------------------------------------------------- country codes
\* str.lower() and str.upper() on the codes of the country list
Lower(c) == CASE c = "US" -> "us" [] c = "CA" -> "ca" [] OTHER -> c
Upper(c) == CASE c = "us" -> "US" [] c = "ca" -> "CA" [] OTHER -> c

\* name of a country's member in the archive
ZoneName(country_code) == "./" \o country_code \o ".zone"

\* ------------------------------------------------------- IP address strings
Ipv4String(v) == [kind |-> "ipv4", value |-> v]
Ipv6String(v) == [kind |-> "ipv6", value |-> v]
MalformedString == [kind |-> "malformed", value |-> 0]

NoAddress == [version |-> 0, ip |-> 0]

\* ipaddress.ip_address(ip): an IPv4Address, an IPv6Address or a ValueError
ip_address(ip) ==
    CASE ip.kind = "ipv4" /\ ip.value \in 0..ALL_ONES -> [version |-> 4, ip |-> ip.value]
      [] ip.kind = "ipv6" /\ ip.value >= 0 -> [version |-> 6, ip |-> ip.value]
      [] OTHER -> NoAddress

\* "ip_obj in network": never across versions, else the masked address
\* equals the network address
Contains(network, ip_obj) ==
    IF ip_obj.version # 4 THEN FALSE
    ELSE BitAnd(ip_obj.ip, Netmask(network.prefixlen), AddrBits)
            = network.network_address

\* ------------------------------------------------------------ zone archive
\* The tar archive: whether it opens at all, and its members by name, each
\* the lines of one zone file.
CorruptArchive == [valid |-> FALSE, members |-> <<>>]

RECURSIVE LStrip(_)
LStrip(lines) ==
    IF lines # <<>> /\ Head(lines).kind = "blank" THEN LStrip(Tail(lines)) ELSE lines

RECURSIVE RStrip(_)
RStrip(lines) ==
    IF lines # <<>> /\ lines[Len(lines)].kind = "blank"
    THEN RStrip(SubSeq(lines, 1, Len(lines) - 1))
    ELSE lines

\* .strip().split('\n') of a member's text: blank lines at both ends go,
\* and an empty text still splits into one empty line
StripSplit(lines) ==
    LET text == RStrip(LStrip(lines))
    IN  IF text = <<>> THEN <<EmptyLine>> ELSE text

download_ip_blocks_stale(country_zones, country_code) ==
    IF ZoneName(country_code) \in DOMAIN country_zones.members
    THEN StripSplit(country_zones.members[ZoneName(country_code)])
    ELSE IF DOMAIN country_zones.members = {} THEN <<>>
    ELSE StripSplit(country_zones.members[CHOOSE n \in DOMAIN country_zones.members : TRUE])

\* extractfile raises KeyError for a missing member: no lines
download_ip_blocks(country_zones, country_code) ==
    IF ZoneName(country_code) \in DOMAIN country_zones.members
    THEN StripSplit(country_zones.members[ZoneName(country_code)])
    ELSE <<>>

\* ------------------------------------------------------------- index build
RECURSIVE ParseCidrsAbort(_, _, _)
ParseCidrsAbort(cidrs, code, all_networks) ==
    IF cidrs = <<>> THEN all_networks
    ELSE LET cidr == StripLine(Head(cidrs))
             network == IPv4Network(cidr)
         IN  IF cidr = EmptyLine
             THEN ParseCidrsAbort(Tail(cidrs), code, all_networks)
             ELSE IF network = NoNetwork THEN all_networks
             ELSE ParseCidrsAbort(Tail(cidrs), code,
                     Append(all_networks, <<network.network_address, network, Upper(code)>>))

\* "for c in cidrs": strip, skip the empty line, parse, append or ignore
RECURSIVE ParseCidrs(_, _, _)
ParseCidrs(cidrs, code, all_networks) ==
    IF cidrs = <<>> THEN all_networks
    ELSE LET cidr == StripLine(Head(cidrs))
             network == IPv4Network(cidr)
         IN  ParseCidrs(Tail(cidrs), code,
                 IF cidr # EmptyLine /\ network # NoNetwork
                 THEN Append(all_networks, <<network.network_address, network, Upper(code)>>)
                 ELSE all_networks)

\* "for code in country_codes": the lines of each country, in list order
RECURSIVE AllNetworks(_, _, _)
AllNetworks(country_codes, country_zones, all_networks) ==
    IF country_codes = <<>> THEN all_networks
    ELSE LET code == Head(country_codes)
             cidrs == download_ip_blocks(country_zones, code)
         IN  AllNetworks(Tail(country_codes), country_zones,
                 IF cidrs # <<>> THEN ParseCidrs(cidrs, code, all_networks)
                 ELSE all_networks)

\* sorted(all_networks, key=lambda x: x[0]): a stable sort
RECURSIVE InsertByStart(_, _)
InsertByStart(sorted, e) ==
    IF sorted = <<>> THEN <<e>>
    ELSE IF sorted[Len(sorted)][1] <= e[1] THEN Append(sorted, e)
    ELSE Append(InsertByStart(SubSeq(sorted, 1, Len(sorted) - 1), e), sorted[Len(sorted)])

RECURSIVE SortInto(_, _)
SortInto(sorted, rest) ==
    IF rest = <<>> THEN sorted
    ELSE SortInto(InsertByStart(sorted, Head(rest)), Tail(rest))

Unsorted(all_networks) == all_networks

SortedByStart(all_networks) == SortInto(<<>>, all_networks)

\* ------------------------------------------------------------------ lookup
\* bisect.bisect_right(a, x); positions are 0-based as in the code
RECURSIVE bisect_right(_, _, _, _)
bisect_right(a, x, lo, hi) ==
    IF lo < hi
    THEN LET mid == (lo + hi) \div 2
         IN  IF x < a[mid + 1] THEN bisect_right(a, x, lo, mid)
             ELSE bisect_right(a, x, mid + 1, hi)
    ELSE lo

Max(a, b) == IF a >= b THEN a ELSE b

\* range(a, b) as the sequence of its values
Range(a, b) == IF b <= a THEN <<>> ELSE [k \in 1..(b - a) |-> a + k - 1]

CandidatesUnclamped(i) == Range(i - 2, i)

\* "for j in range(max(0, i - 2), i)"
Candidates(i) == Range(Max(0, i - 2), i)

Answer(res, rd, err) == [result |-> res, reads |-> rd, raised |-> err]

\* the loop body over the candidates, reading NETWORK_MAP[j] as Python does
\* (a negative j counts from the end, anything else outside raises)
RECURSIVE Scan(_, _, _, _, _)
Scan(network_map, ip_obj, cands, k, reads) ==
    IF k > Len(cands) THEN Answer("UNKNOWN", reads, NoError)
    ELSE LET j == cands[k]
             n == Len(network_map)
         IN  IF j >= n \/ j < -n THEN Answer("", Append(reads, j), IndexError)
             ELSE LET entry == network_map[(IF j < 0 THEN n + j ELSE j) + 1]
                  IN  IF Contains(entry[2], ip_obj)
                      THEN Answer(entry[3], Append(reads, j), NoError)
                      ELSE Scan(network_map, ip_obj, cands, k + 1, Append(reads, j))

get_country_from_ip(network_map, ip) ==
    LET ip_obj == ip_address(ip)
        network_start_addresses == [k \in 1..Len(network_map) |-> network_map[k][1]]
        i == bisect_right(network_start_addresses, ip_obj.ip, 0,
                          Len(network_start_addresses))
    IN  IF ip_obj = NoAddress THEN Answer("INVALID IP", <<>>, NoError)
        ELSE Scan(network_map, ip_obj, Candidates(i), 1, <<>>)

\* ----------------------------------------------------------- the network
\* What the two URLs serve: for each, the errors its first get() calls
\* raise (then it answers), the CSV of the country list and the archive.
ErrorTypes == {"RequestException", "OtherError"}

\* get(url) followed by raise_for_status(), as the k-th call of a loop
Get(plan, k, body) ==
    IF k <= Len(plan)
    THEN [ok |-> FALSE, error |-> FetchError(plan[k], k), call |-> k, body |-> body]
    ELSE [ok |-> TRUE, error |-> NoError, call |-> k, body |-> body]

RetriesExhaustedEarly(attempt) == attempt >= MaxAttempts - 1

RetriesExhaustedLate(attempt) == attempt > MaxAttempts

\* "if attempt >= 3: raise e"
RetriesExhausted(attempt) == attempt >= MaxAttempts

\* the 'Code' column of the CSV, lowercased; no column, no rows
Csv(has_code, rows) == [has_code |-> has_code, rows |-> rows]

ParseCsv(text) ==
    IF text.has_code THEN [k \in 1..Len(text.rows) |-> Lower(text.rows[k])] ELSE <<>>

Returned(codes) == [kind |-> "returned", codes |-> codes, error |-> NoError]
Raised(e) == [kind |-> "raised", codes |-> <<>>, error |-> e]
Pending == [kind |-> "pending", codes |-> <<>>, error |-> NoError]

NoQuery == [ip |-> MalformedString, asked |-> FALSE, answer |-> Answer("", <<>>, NoError)]

VARIABLES
    remote,          \* the network: [iso_plan, zone_plan, csv, zones]
    pc,              \* where __main__ is
    attempt,         \* the local "attempt" of the running fetch loop
    calls,           \* get() calls made so far, per URL
    iso_response,    \* which get() call gave "response" in get_iso_country_codes
    iso_ret,         \* what get_iso_country_codes gave its caller
    zone_response,   \* which get() call gave "response" in load_country_data
    country_zones,   \* self.country_zones
    NETWORK_MAP,     \* self.NETWORK_MAP
    load_ret,        \* what CountryCidrMapper(...) gave its caller
    uncaught,        \* the exception that ended the program, if any
    last             \* the latest get_country_from_ip call and its answer

vars == <<remote, pc, attempt, calls, iso_response, iso_ret, zone_response,
          country_zones, NETWORK_MAP, load_ret, uncaught, last>>

EmptyArchive == [valid |-> TRUE, members |-> <<>>]

Start ==
    /\ pc = "get_iso_country_codes"
    /\ attempt = 0
    /\ calls = [iso |-> 0, zones |-> 0]
    /\ iso_response = 0
    /\ iso_ret = Pending
    /\ zone_response = 0
    /\ country_zones = EmptyArchive
    /\ NETWORK_MAP = <<>>
    /\ load_ret = Pending
    /\ uncaught = NoError
    /\ last = NoQuery

\* ------------------------------------------------- get_iso_country_codes
\* one failed get() with attempts left: print and loop
GetIsoCountryCodesRetry ==
    /\ pc = "get_iso_country_codes"
    /\ ~Get(remote.iso_plan, attempt + 1, remote.csv).ok
    /\ ~RetriesExhausted(attempt + 1)
    /\ attempt' = attempt + 1
    /\ calls' = [calls EXCEPT !.iso = @ + 1]
    /\ UNCHANGED <<remote, pc, iso_response, iso_ret, zone_response, country_zones,
                   NETWORK_MAP, load_ret, uncaught, last>>

\* the last failed get(): "raise e"; a RequestException is caught by the
\* outer handler, which returns [], and __main__ raises ParameterError
GetIsoCountryCodesGiveUp ==
    /\ pc = "get_iso_country_codes"
    /\ ~Get(remote.iso_plan, attempt + 1, remote.csv).ok
    /\ RetriesExhausted(attempt + 1)
    /\ LET e == Get(remote.iso_plan, attempt + 1, remote.csv).error
       IN  /\ iso_ret' = IF e.type = "RequestException" THEN Returned(<<>>) ELSE Raised(e)
           /\ uncaught' = IF e.type = "RequestException" THEN ParameterError ELSE e
    /\ attempt' = attempt + 1
    /\ calls' = [calls EXCEPT !.iso = @ + 1]
    /\ pc' = "exit"
    /\ UNCHANGED <<remote, iso_response, zone_response, country_zones, NETWORK_MAP,
                   load_ret, last>>

\* a get() that answers: parse the CSV, return the codes; __main__ stops on
\* an empty list and otherwise constructs the mapper
GetIsoCountryCodesSucceeds ==
    /\ pc = "get_iso_country_codes"
    /\ Get(remote.iso_plan, attempt + 1, remote.csv).ok
    /\ LET response == Get(remote.iso_plan, attempt + 1, remote.csv)
           country_codes == ParseCsv(response.body)
       IN  /\ iso_response' = response.call
           /\ iso_ret' = Returned(country_codes)
           /\ IF country_codes = <<>>
              THEN /\ pc' = "exit"
                   /\ uncaught' = ParameterError
                   /\ attempt' = attempt + 1
              ELSE /\ pc' = "load_country_data"
                   /\ uncaught' = uncaught
                   /\ attempt' = 0
    /\ calls' = [calls EXCEPT !.iso = @ + 1]
    /\ NETWORK_MAP' = <<>>
    /\ UNCHANGED <<remote, zone_response, country_zones, load_ret, last>>

\* ------------------------------------------------------ load_country_data
LoadCountryDataRetry ==
    /\ pc = "load_country_data"
    /\ ~Get(remote.zone_plan, attempt + 1, remote.zones).ok
    /\ ~RetriesExhausted(attempt + 1)
    /\ attempt' = attempt + 1
    /\ calls' = [calls EXCEPT !.zones = @ + 1]
    /\ UNCHANGED <<remote, pc, iso_response, iso_ret, zone_response, country_zones,
                   NETWORK_MAP, load_ret, uncaught, last>>

\* the last failed get(): "raise e" leaves the constructor and __main__
LoadCountryDataGiveUp ==
    /\ pc = "load_country_data"
    /\ ~Get(remote.zone_plan, attempt + 1, remote.zones).ok
    /\ RetriesExhausted(attempt + 1)
    /\ load_ret' = Raised(Get(remote.zone_plan, attempt + 1, remote.zones).error)
    /\ uncaught' = Get(remote.zone_plan, attempt + 1, remote.zones).error
    /\ attempt' = attempt + 1
    /\ calls' = [calls EXCEPT !.zones = @ + 1]
    /\ pc' = "exit"
    /\ UNCHANGED <<remote, iso_response, iso_ret, zone_response, country_zones,
                   NETWORK_MAP, last>>

\* a get() that answers: open the archive, read every listed country's
\* member, parse its lines and sort the ranges
LoadCountryDataSucceeds ==
    /\ pc = "load_country_data"
    /\ Get(remote.zone_plan, attempt + 1, remote.zones).ok
    /\ LET response == Get(remote.zone_plan, attempt + 1, remote.zones)
       IN  /\ zone_response' = response.call
           /\ IF ~response.body.valid
              THEN /\ load_ret' = Raised(ReadError)
                   /\ uncaught' = ReadError
                   /\ pc' = "exit"
                   /\ UNCHANGED <<country_zones, NETWORK_MAP>>
              ELSE /\ country_zones' = response.body
                   /\ NETWORK_MAP' = SortedByStart(AllNetworks(iso_ret.codes, response.body, <<>>))
                   /\ load_ret' = Returned(iso_ret.codes)
                   /\ uncaught' = uncaught
                   /\ pc' = "ready"
    /\ attempt' = attempt + 1
    /\ calls' = [calls EXCEPT !.zones = @ + 1]
    /\ UNCHANGED <<remote, iso_response, iso_ret, last>>

\* ---------------------------------------------------- get_country_from_ip
IpStrings ==
    {Ipv4String(v) : v \in 0..(ALL_ONES + 1)}
        \cup {Ipv6String(v) : v \in {0, 1, ALL_ONES + 1}}
        \cup {MalformedString}

GetCountryFromIp ==
    /\ pc = "ready"
    /\ \E ip \in IpStrings :
          /\ last' = [ip |-> ip, asked |-> TRUE,
                       answer |-> get_country_from_ip(NETWORK_MAP, ip)]
          /\ uncaught' = last'.answer.raised
          /\ pc' = IF last'.answer.raised = NoError THEN "ready" ELSE "exit"
    /\ UNCHANGED <<remote, attempt, calls, iso_response, iso_ret, zone_response,
                   country_zones, NETWORK_MAP, load_ret>>

Next ==
    \/ GetIsoCountryCodesRetry
    \/ GetIsoCountryCodesGiveUp
    \/ GetIsoCountryCodesSucceeds
    \/ LoadCountryDataRetry
    \/ LoadCountryDataGiveUp
    \/ LoadCountryDataSucceeds
    \/ GetCountryFromIp

\* ---------------------------------------------------------- the universes
SeqsUpTo(S, n) == UNION {[1..k -> S] : k \in 0..n}

Plans(n) == SeqsUpTo(ErrorTypes, n)

\* every <addr>/<plen> text, the prefix one past the width included
CidrLines == {CidrLine(a, p) : a \in 0..ALL_ONES, p \in 0..(AddrBits + 1)}

\* the texts that already name their network address
CanonLines == {c \in CidrLines : c.plen <= AddrBits /\ c.addr % (2^(AddrBits - c.plen)) = 0}

JunkLines == {BlankLine, Cidr6Line, GarbageLine}

OneZone(code, lines) == [valid |-> TRUE, members |-> (ZoneName(code) :> lines)]

TwoZones(us, ca) ==
    [valid |-> TRUE, members |-> (ZoneName("us") :> us) @@ (ZoneName("ca") :> ca)]

\* the lines s dealt to the members us.zone and ca.zone
SplitArchives(s) ==
    {TwoZones(SubSeq(s, 1, k), SubSeq(s, k + 1, Len(s))) : k \in 0..Len(s)}

\* the same, and with either member absent
ArchivesOf(s) == SplitArchives(s) \cup {OneZone("us", s), OneZone("ca", s)}

World(ip, zp, csv, zones) == [iso_plan |-> ip, zone_plan |-> zp, csv |-> csv, zones |-> zones]

UsCa == Csv(TRUE, <<"US", "CA">>)

\* every archive of at most n lines drawn from lines with both members
\* present, behind one failure of each URL
RangeWorlds(lines, n) ==
    {World(<<"RequestException">>, <<"OtherError">>, UsCa, z) :
        z \in UNION {SplitArchives(s) : s \in SeqsUpTo(lines, n)}}

\* the same, and with either member absent
ZoneWorlds(lines, n) ==
    {World(<<"RequestException">>, <<"OtherError">>, UsCa, z) :
        z \in UNION {ArchivesOf(s) : s \in SeqsUpTo(lines, n)}}

\* texts at both ends of the address space, every prefix length and one more
EdgeLines == {c \in CidrLines : c.addr \in {0, ALL_ONES}}

\* every script of at most n failures for both URLs
RetryWorlds(n) ==
    {World(ip, zp, csv, z) :
        ip \in Plans(n), zp \in Plans(n),
        csv \in {UsCa, Csv(FALSE, <<"US">>), Csv(TRUE, <<>>)},
        z \in {OneZone("us", <<CidrLine(0, 1)>>), CorruptArchive}}

\* ranges of every size that start at 0 or at the middle address
NestLines == {c \in CanonLines : c.addr \in {0, 2^(AddrBits - 1)}}

\* both URLs failing for good, one after the other
GiveUpWorlds(n) ==
    {World([k \in 1..n |-> "RequestException"], <<>>, UsCa, EmptyArchive),
     World(<<>>, [k \in 1..n |-> "OtherError"], UsCa, EmptyArchive)}

\* one line of any text in the only member
CidrWorlds(lines) ==
    {World(ip, zp, UsCa, OneZone("us", <<c>>)) :
        ip \in {<<>>, <<"RequestException">>}, zp \in {<<>>, <<"OtherError">>},
        c \in lines}

\* main universe: archives of ranges
Init ==
    /\ remote \in RangeWorlds(CanonLines, MaxLines) \cup GiveUpWorlds(MaxAttempts)
    /\ Start

\* zone universe: archives with absent members, blank and unparseable lines
InitZones ==
    /\ remote \in ZoneWorlds(EdgeLines \cup JunkLines, MaxLines)
                    \cup GiveUpWorlds(MaxAttempts)
    /\ Start

\* retry universe
InitRetry == remote \in RetryWorlds(MaxFails) /\ Start

\* parse universe
InitCidr ==
    /\ remote \in CidrWorlds(CidrLines \cup JunkLines) \cup GiveUpWorlds(MaxAttempts)
    /\ Start

\* nesting universe: one more line, all of them ranges that start at the
\* bottom or in the middle of the address space
InitDeep ==
    /\ remote \in RangeWorlds(NestLines, MaxLines + 1) \cup GiveUpWorlds(MaxAttempts)
    /\ Start

Spec == Init /\ [][Next]_vars
SpecZones == InitZones /\ [][Next]_vars
SpecRetry == InitRetry /\ [][Next]_vars
SpecCidr == InitCidr /\ [][Next]_vars
SpecDeep == InitDeep /\ [][Next]_vars

\* ------------------------------------------------------------- vocabulary
\* A range by its bounds, as the data model states it
StartOf(e) == e[1]
EndOf(e) == e[1] + 2^(AddrBits - e[2].prefixlen) - 1
InRange(e, v) == StartOf(e) <= v /\ v <= EndOf(e)

\* the latest query was a valid IPv4 string
AskedIpv4 == last.asked /\ last.ip.kind = "ipv4" /\ last.ip.value \in 0..ALL_ONES

\* positions (from 1) of the loaded ranges that hold the latest address
Holders == {k \in 1..Len(NETWORK_MAP) : InRange(NETWORK_MAP[k], last.ip.value)}

\* insertion point of the latest address: ranges starting at or before it
InsertionPoint == Cardinality({k \in 1..Len(NETWORK_MAP) : StartOf(NETWORK_MAP[k]) <= last.ip.value})

\* C1: a valid IPv4 address held by exactly one loaded range resolves to
\* that range's country code, nested and equal-start ranges included.
C1_ResolvesUniqueRange ==
    (AskedIpv4 /\ Cardinality(Holders) = 1)
        => \A k \in Holders : last.answer.result = NETWORK_MAP[k][3]

\* C2: a string that is not an IPv4 address, an IPv6 literal included,
\* answers "INVALID IP" and raises nothing.
C2_InvalidSentinel ==
    (last.asked /\ ~AskedIpv4)
        => last.answer.result = "INVALID IP" /\ last.answer.raised = NoError

\* C3: a valid IPv4 address held by no loaded range answers "UNKNOWN",
\* raises nothing and reads only positions 0..len(NETWORK_MAP)-1.
C3_UnknownOutside ==
    (AskedIpv4 /\ Holders = {})
        => /\ last.answer.result = "UNKNOWN"
           /\ last.answer.raised = NoError
           /\ uncaught = NoError
           /\ \A r \in 1..Len(last.answer.reads) :
                 last.answer.reads[r] \in 0..(Len(NETWORK_MAP) - 1)

C3_Witness ==
    /\ AskedIpv4 /\ Holders = {}
    /\ Len(NETWORK_MAP) = MaxLines
    /\ Len(last.answer.reads) = 2
    /\ last.answer.result = "UNKNOWN"

\* C9: when the two entries before the insertion point both hold the
\* address, the nearer one (i-1) is checked first, so that its country is
\* the one returned.
C9_NearestFirst ==
    (/\ AskedIpv4
     /\ InsertionPoint >= 2
     /\ InRange(NETWORK_MAP[InsertionPoint], last.ip.value)
     /\ InRange(NETWORK_MAP[InsertionPoint - 1], last.ip.value))
        => last.answer.result = NETWORK_MAP[InsertionPoint][3]

\* ---------------------------------------------------------------- build
\* the country list as __main__ holds it
CountryCodes == iso_ret.codes

HasZone(code) == ZoneName(code) \in DOMAIN country_zones.members

\* raw lines of a listed country's member, none when it has no member
ZoneLines(code) == IF HasZone(code) THEN country_zones.members[ZoneName(code)] ELSE <<>>

\* (country position, line position) of every line that parses
GoodLines ==
    UNION {{<<k, i>> : i \in {j \in 1..Len(ZoneLines(CountryCodes[k])) :
                               IPv4Network(ZoneLines(CountryCodes[k])[j]) # NoNetwork}} :
           k \in 1..Len(CountryCodes)}

\* the index entry a parsed line stands for
EntryOf(pos) ==
    LET network == IPv4Network(ZoneLines(CountryCodes[pos[1]])[pos[2]])
    IN  <<network.network_address, network, Upper(CountryCodes[pos[1]])>>

Occurrences(seq, e) == Cardinality({k \in 1..Len(seq) : seq[k] = e})

\* C6: a listed country without a member yields no lines, the load
\* completes, no range carries its code and the index is the one built
\* from the list without that country.
C6_MissingMemberSkipped ==
    pc = "ready" =>
        /\ load_ret.kind = "returned"
        /\ \A m \in 1..Len(CountryCodes) :
              ~HasZone(CountryCodes[m]) =>
                 /\ download_ip_blocks(country_zones, CountryCodes[m]) = <<>>
                 /\ \A k \in 1..Len(NETWORK_MAP) :
                       NETWORK_MAP[k][3] # Upper(CountryCodes[m])
        /\ LET present(c) == HasZone(c)
           IN  NETWORK_MAP = SortedByStart(
                   AllNetworks(SelectSeq(CountryCodes, present), country_zones, <<>>))

C6_Witness ==
    /\ pc = "ready"
    /\ \E m \in 1..Len(CountryCodes) : ~HasZone(CountryCodes[m])
    /\ Len(NETWORK_MAP) = MaxLines

\* C7: blank lines and lines that do not parse are skipped without ending
\* the load or the rest of any country: the index holds one range per
\* parsed line of the listed countries, no more and no fewer.
C7_OneRangePerParsedLine ==
    pc = "ready" =>
        /\ load_ret.kind = "returned"
        /\ Len(NETWORK_MAP) = Cardinality(GoodLines)
        /\ \A pos \in GoodLines :
              Occurrences(NETWORK_MAP, EntryOf(pos))
                 = Cardinality({q \in GoodLines : EntryOf(q) = EntryOf(pos)})

C7_Witness ==
    /\ pc = "ready"
    /\ \E pos \in GoodLines :
          /\ pos[2] > 1
          /\ <<pos[1], pos[2] - 1>> \notin GoodLines
          /\ ZoneLines(CountryCodes[pos[1]])[pos[2] - 1].kind \in {"cidr6", "garbage", "cidr4"}
    /\ Len(NETWORK_MAP) >= 1

\* the lines as they were appended to all_networks
Inserted == AllNetworks(CountryCodes, country_zones, <<>>)

\* ascending by start address, and the entries of each start address in
\* the order they were appended
SortedStable ==
    LET inserted == Inserted
    IN  /\ \A k \in 1..(Len(NETWORK_MAP) - 1) :
              StartOf(NETWORK_MAP[k]) <= StartOf(NETWORK_MAP[k + 1])
        /\ Len(NETWORK_MAP) = Len(inserted)
        /\ \A v \in 0..ALL_ONES :
              LET starts_at_v(e) == StartOf(e) = v
              IN  SelectSeq(NETWORK_MAP, starts_at_v) = SelectSeq(inserted, starts_at_v)

\* C10: in every state from the completion of the load on, whatever
\* get_country_from_ip calls were made and whatever they answered,
\* NETWORK_MAP is the loaded ranges sorted ascending by start address with
\* the entries of equal start in insertion order: nothing was added,
\* removed, reordered or changed.
C10_SortedAndFrozen == pc = "ready" => SortedStable

C10_Witness ==
    /\ pc = "ready"
    /\ last.asked
    /\ \E k \in 1..(Len(NETWORK_MAP) - 1) :
          /\ StartOf(NETWORK_MAP[k]) = StartOf(NETWORK_MAP[k + 1])
          /\ NETWORK_MAP[k] # NETWORK_MAP[k + 1]
    /\ \E k \in 1..(Len(Inserted) - 1) : StartOf(Inserted[k]) > StartOf(Inserted[k + 1])

\* the one line of the parse universe
OnlyLine == remote.zones.members[ZoneName("us")][1]

\* C8: <addr>/<plen> loads as the range that starts at addr with its low
\* (AddrBits - plen) bits zeroed and ends 2^(AddrBits - plen) - 1 later, and
\* an address is held exactly when it lies between the two.
C8_NonStrictRange ==
    (pc = "ready" /\ OnlyLine.kind = "cidr4" /\ OnlyLine.plen \in 0..AddrBits) =>
        LET size == 2^(AddrBits - OnlyLine.plen)
            start == OnlyLine.addr - (OnlyLine.addr % size)
        IN  /\ Len(NETWORK_MAP) = 1
            /\ StartOf(NETWORK_MAP[1]) = start
            /\ NETWORK_MAP[1][2] = [network_address |-> start, prefixlen |-> OnlyLine.plen]
            /\ AskedIpv4 =>
                  last.answer.result =
                     IF start <= last.ip.value /\ last.ip.value <= start + size - 1
                     THEN "US" ELSE "UNKNOWN"

C8_Witness ==
    /\ pc = "ready"
    /\ OnlyLine.kind = "cidr4"
    /\ OnlyLine.plen \in 1..(AddrBits - 1)
    /\ OnlyLine.addr % (2^(AddrBits - OnlyLine.plen)) # 0
    /\ AskedIpv4
    /\ last.ip.value < OnlyLine.addr
    /\ last.answer.result = "US"

\* ---------------------------------------------------------------- retry
\* the fetch loop of each function is over
IsoLoopOver == pc # "get_iso_country_codes"
ZoneLoopOver == pc \in {"ready", "exit"} /\ load_ret.kind # "pending"

\* every attempt of a loop fails: the URL fails at least MaxAttempts times
IsoAlwaysFails == Len(remote.iso_plan) >= MaxAttempts
ZoneAlwaysFails == Len(remote.zone_plan) >= MaxAttempts

\* C4 as stated: when every attempt fails, both fetches make exactly 3
\* attempts, never a 4th, and give the caller the 3rd attempt's error.
C4_FinalErrorRaised ==
    /\ calls.iso <= MaxAttempts /\ calls.zones <= MaxAttempts
    /\ (IsoLoopOver /\ IsoAlwaysFails) =>
          /\ calls.iso = MaxAttempts
          /\ iso_ret = Raised(FetchError(remote.iso_plan[MaxAttempts], MaxAttempts))
    /\ (ZoneLoopOver /\ ZoneAlwaysFails) =>
          /\ calls.zones = MaxAttempts
          /\ load_ret = Raised(FetchError(remote.zone_plan[MaxAttempts], MaxAttempts))

\* C4 amended: exactly 3 attempts and never a 4th in both loops;
\* load_country_data raises the 3rd error to its caller;
\* get_iso_country_codes raises it unless it is a RequestException, which
\* it catches to return an empty list (on which __main__ raises
\* ParameterError).
C4_FinalErrorRaisedOrCaught ==
    /\ calls.iso <= MaxAttempts /\ calls.zones <= MaxAttempts
    /\ (IsoLoopOver /\ IsoAlwaysFails) =>
          /\ calls.iso = MaxAttempts
          /\ pc = "exit"
          /\ IF remote.iso_plan[MaxAttempts] = "RequestException"
             THEN iso_ret = Returned(<<>>) /\ uncaught = ParameterError
             ELSE /\ iso_ret = Raised(FetchError(remote.iso_plan[MaxAttempts], MaxAttempts))
                  /\ uncaught = iso_ret.error
    /\ (ZoneLoopOver /\ ZoneAlwaysFails) =>
          /\ calls.zones = MaxAttempts
          /\ pc = "exit"
          /\ load_ret = Raised(FetchError(remote.zone_plan[MaxAttempts], MaxAttempts))
          /\ uncaught = load_ret.error

C4_Witness ==
    /\ IsoLoopOver /\ IsoAlwaysFails
    /\ Len(remote.iso_plan) > MaxAttempts
    /\ remote.iso_plan[MaxAttempts] = "RequestException"
    /\ remote.iso_plan[1] = "OtherError"
    /\ calls.iso = MaxAttempts
    /\ iso_ret = Returned(<<>>)

\* C5: a fetch whose first success is attempt n <= 3 (so also one that
\* fails twice and then succeeds) ends after exactly n attempts with the
\* n-th response as its result and no fetch error raised.
C5_StopsAtFirstSuccess ==
    /\ (IsoLoopOver /\ ~IsoAlwaysFails) =>
          /\ calls.iso = Len(remote.iso_plan) + 1
          /\ iso_response = Len(remote.iso_plan) + 1
          /\ iso_ret = Returned(ParseCsv(remote.csv))
          /\ uncaught.type \notin ErrorTypes \/ ZoneLoopOver
    /\ (ZoneLoopOver /\ ~ZoneAlwaysFails) =>
          /\ calls.zones = Len(remote.zone_plan) + 1
          /\ zone_response = Len(remote.zone_plan) + 1
          /\ uncaught.type \notin ErrorTypes
          /\ load_ret.error.type \notin ErrorTypes
          /\ remote.zones.valid => country_zones = remote.zones /\ load_ret.kind = "returned"

C5_Witness ==
    /\ pc = "ready"
    /\ Len(remote.iso_plan) = MaxAttempts - 1
    /\ Len(remote.zone_plan) = MaxAttempts - 1
    /\ calls = [iso |-> MaxAttempts, zones |-> MaxAttempts]
    /\ iso_response = MaxAttempts
    /\ zone_response = MaxAttempts
====
